---- MODULE Spec2Model ----
(***************************************************************************)
(* Model of the traversal controller of website_test_bot:                  *)
(* crawler/crawler.py (crawl_website, crawl_page, extract_links,           *)
(* is_url_allowed) over the records of crawler/models.py.                  *)
(*                                                                         *)
(* A URL is the record urllib.parse.urlparse gives: scheme, netloc (a      *)
(* sequence of characters), path (the number n of the path "/p<n>", 0 for  *)
(* the root path), ext (the extension the path ends with) and fragment.    *)
(* params and query are empty in every URL of the model.                   *)
(***************************************************************************)
EXTENDS Integers, Sequences, FiniteSets, TLC

\* ------------------------------------------------------------------ bounds
NumPages == 1          \* documents not known beforehand link to / and /p1 .. /p<NumPages>
MaxLinks == 1          \* a[href] elements of a document not known beforehand
MaxDepth == 2          \* config.crawler.depth ranges over 1..MaxDepth
MaxConcurrency == 2    \* config.crawler.concurrency ranges over 1..MaxConcurrency
MaxPagesChoices == {1, 2, 10}   \* values of config.crawler.max_pages

\* ------------------------------------------------------------------ values
None == [scheme |-> "", netloc |-> <<>>, path |-> 0, ext |-> "", fragment |-> ""]
NoMessage == "<None>"

Url(n) == [scheme |-> "http", netloc |-> <<"x">>, path |-> n, ext |-> "", fragment |-> ""]
\* The url arguments crawl_website is called with.
RootUrls == {Url(0)}
\* The same with a url that carries a fragment, as in http://x/#top
AnyRootUrls == RootUrls \cup {[Url(0) EXCEPT !.fragment = "top"]}

EmptyMap == [k \in {} |-> None]
Put(m, k, v) == [x \in DOMAIN m \cup {k} |-> IF x = k THEN v ELSE m[x]]

\* The absolute URLs urljoin gives for the a[href] of a document that is not
\* known beforehand: same-origin pages, with a fragment, with an excluded
\* extension, and on another host.
Hrefs ==
    {Url(n) : n \in 0..NumPages}
    \cup {[Url(1) EXCEPT !.fragment = "f"]}
    \cup {[Url(1) EXCEPT !.ext = ".pdf"]}
    \cup {[Url(1) EXCEPT !.netloc = <<"o">>]}

SeqsUpTo(S, n) == UNION {[1..k -> S] : k \in 0..n}

\* What is known of the site before the crawl, as a map from the url of a
\* document (without fragment) to the absolute URLs of its a[href] elements:
\* nothing; or the root document, with up to two links among the root, /p1
\* and /p2; or the whole of a site whose page /p1 is linked from the root and
\* from /p2.
TwoParentsSite ==
    [d \in {Url(n) : n \in 0..3} |->
        CASE d = Url(0) -> <<Url(2), Url(1)>>
          [] d = Url(2) -> <<Url(1)>>
          [] d = Url(1) -> <<Url(3)>>
          [] d = Url(3) -> <<>>]

RootDocuments == SeqsUpTo({Url(0), Url(1), Url(2)}, 2)

Sites ==
    {EmptyMap, TwoParentsSite}
    \cup {Put(EmptyMap, Url(0), hrefs) : hrefs \in RootDocuments}

excluded_extensions == {".pdf", ".jpg", ".jpeg", ".png", ".gif", ".svg", ".css", ".js"}

IsPrefix(s, t) == Len(s) <= Len(t) /\ SubSeq(t, 1, Len(s)) = s

\* absolute_url.startswith(base_url) with base_url = scheme://netloc
StartsWithBase(u, base) ==
    u.scheme = base.scheme /\ IsPrefix(base.netloc, u.netloc)

\* urlunparse of the parts with the fragment replaced by ""
clean_url(u) == [u EXCEPT !.fragment = ""]

RECURSIVE extract_links(_, _)
extract_links(hrefs, base) ==
    IF hrefs = <<>> THEN <<>>
    ELSE LET absolute_url == Head(hrefs)
             rest == extract_links(Tail(hrefs), base)
         IN  IF StartsWithBase(absolute_url, base)
             THEN <<clean_url(absolute_url)>> \o rest
             ELSE rest

is_url_allowed(u, exclude_patterns) ==
    /\ u.path \notin exclude_patterns
    /\ u.scheme \in {"http", "https"}
    /\ u.ext \notin excluded_extensions

\* CrawlPage(url=url, depth=depth, parent_url=parent_url) with the defaults
CrawlPage(u, d, p) ==
    [url |-> u, depth |-> d, parent_url |-> p, links |-> <<>>,
     has_errors |-> FALSE, error_message |-> NoMessage]

\* An element (url, depth, parent_url) of to_crawl
Entry(u, d, p) == [url |-> u, depth |-> d, parent_url |-> p]

Max(a, b) == IF a >= b THEN a ELSE b

Take(s, n) == SubSeq(s, 1, IF n <= Len(s) THEN n ELSE Len(s))
Drop(s, n) == SubSeq(s, n + 1, Len(s))

\* ------------------------------------------------------------------- state
VARIABLES
    base_url,       \* the url argument of crawl_website (crawl_data.base_url)
    config,         \* [depth, max_pages, concurrency, exclude_patterns]
    site,           \* the documents known beforehand: clean url -> its a[href] list
    pc,             \* position of crawl_website
    to_crawl,       \* the frontier: sequence of <<url, depth, parent_url>>
    pages,          \* crawl_data.pages
    visited_urls,   \* crawl_data.visited_urls
    failed_urls,    \* crawl_data.failed_urls
    crawl_depth,    \* crawl_data.crawl_depth
    stats,          \* crawl_data.stats
    end_time,       \* crawl_data.end_time has been stamped
    browser,        \* "open" | "closed", and how often close was called
    tasks,          \* the crawl_page coroutines of the current batch: position,
                    \* CrawlPage, context ("none" | "open" | "closed") and the
                    \* statement that raised ("none" | "new_context" |
                    \* "new_page" | "try")
    merged,         \* number of crawled_pages already processed by the for loop
    \* one call of extract_links taken by itself
    href_base,      \* its base_url argument
    href_list,      \* the href attributes of the a[href] elements of its page
    href_links,     \* the list it returned
    href_pc,        \* "idle" | "called" | "returned"
    \* one call of generate_tests
    gen_pages,          \* crawl_data.pages.values()
    page_objects,       \* the list page_objects
    page_object_files,  \* the list page_object_files
    test_files,         \* the list test_files
    all_files,          \* the files written and returned
    written_files,      \* the files on disk: file_path -> the file written last
    gen_pc,             \* position of generate_tests
    \* one call of create_page_object_name and create_test_name, or of
    \* create_element_name, taken by itself
    naming_input,       \* the page (title, url) or the element (text, id, class,
                        \* element_type) to be named
    naming_name,        \* the name returned
    naming_test_name,   \* the name create_test_name returned
    naming_pc,          \* "idle" | "called" | "named" | "returned" | "raised"
    \* one form from the document to the generated form test
    dom_fields,         \* the fields extract_forms finds: type, name, id,
                        \* placeholder, visibility
    crawl_form,         \* the CrawlForm extract_forms returns for them
    form_test_data,     \* sample_data of the form test create_test_case writes
    form_pc             \* "idle" | "extract" | "generate" | "returned"

crawl_vars == <<base_url, config, site, pc, to_crawl, pages, visited_urls,
                failed_urls, crawl_depth, stats, end_time, browser, tasks, merged>>

links_vars == <<href_base, href_list, href_links, href_pc>>

generator_vars == <<gen_pages, page_objects, page_object_files, test_files,
                    all_files, written_files, gen_pc>>

naming_vars == <<naming_input, naming_name, naming_test_name, naming_pc>>

form_vars == <<dom_fields, crawl_form, form_test_data, form_pc>>

\* the variables crawl_website and crawl_page leave alone
other_vars == <<links_vars, generator_vars, naming_vars, form_vars>>

vars == <<crawl_vars, other_vars>>

\* extract_links is not called on its own
LinksIdle ==
    /\ href_base = None
    /\ href_list = <<>>
    /\ href_links = <<>>
    /\ href_pc = "idle"

\* generate_tests is not called
GeneratorIdle ==
    /\ gen_pages = <<>>
    /\ page_objects = <<>>
    /\ page_object_files = <<>>
    /\ test_files = <<>>
    /\ all_files = <<>>
    /\ written_files = EmptyMap
    /\ gen_pc = "idle"

\* no name is derived on its own
NamingIdle ==
    /\ naming_input = None
    /\ naming_name = <<>>
    /\ naming_test_name = <<>>
    /\ naming_pc = "idle"

\* no form is followed on its own
FormIdle ==
    /\ dom_fields = <<>>
    /\ crawl_form = None
    /\ form_test_data = <<>>
    /\ form_pc = "idle"

\* crawl_website is called with a url of roots
CrawlInit(roots) ==
    /\ base_url \in roots
    /\ config \in [depth : 1..MaxDepth,
                   max_pages : MaxPagesChoices,
                   concurrency : 1..MaxConcurrency,
                   exclude_patterns : {{}}]
    /\ site \in Sites
    /\ pc = "while"
    /\ to_crawl = <<Entry(base_url, 0, None)>>
    /\ pages = EmptyMap
    /\ visited_urls = {}
    /\ failed_urls = EmptyMap
    /\ crawl_depth = 0
    /\ stats = EmptyMap
    /\ end_time = FALSE
    /\ browser = [state |-> "open", closes |-> 0]
    /\ tasks = <<>>
    /\ merged = 0

\* crawl_website is not called
CrawlIdle ==
    /\ base_url = None
    /\ config = [depth |-> 1, max_pages |-> 1, concurrency |-> 1,
                 exclude_patterns |-> {}]
    /\ site = EmptyMap
    /\ pc = "idle"
    /\ to_crawl = <<>>
    /\ pages = EmptyMap
    /\ visited_urls = {}
    /\ failed_urls = EmptyMap
    /\ crawl_depth = 0
    /\ stats = EmptyMap
    /\ end_time = FALSE
    /\ browser = [state |-> "closed", closes |-> 0]
    /\ tasks = <<>>
    /\ merged = 0

Init ==
    /\ CrawlInit(RootUrls)
    /\ LinksIdle
    /\ GeneratorIdle
    /\ NamingIdle
    /\ FormIdle

\* ------------------------------------------------------------ crawl_website
\* LoopCondition leaving the loop with one entry still queued
LoopConditionOffByOne(tc, pgs, cfg) ==
    Len(tc) > 1 /\ Cardinality(DOMAIN pgs) < cfg.max_pages

\* while to_crawl and len(crawl_data.pages) < config.crawler.max_pages
LoopCondition(tc, pgs, cfg) ==
    tc # <<>> /\ Cardinality(DOMAIN pgs) < cfg.max_pages

\* ShouldExpand with <= for <
ShouldExpandAtMaxDepth(page, cfg) ==
    page.depth <= cfg.depth /\ ~page.has_errors

\* ShouldExpand without the test of the depth
ShouldExpandAtAnyDepth(page, cfg) ==
    ~page.has_errors

\* if page.depth < config.crawler.depth and not page.has_errors
ShouldExpand(page, cfg) ==
    page.depth < cfg.depth /\ ~page.has_errors

\* Admit without the test of visited_urls
AdmitVisited(link, visited, failed, cfg) ==
    /\ link \notin DOMAIN failed
    /\ is_url_allowed(link, cfg.exclude_patterns)

\* the condition of the inner if on one link
Admit(link, visited, failed, cfg) ==
    /\ link \notin visited
    /\ link \notin DOMAIN failed
    /\ is_url_allowed(link, cfg.exclude_patterns)

\* the entries the for loop over page.links appends to to_crawl
NewEntries(page, visited, failed, cfg) ==
    IF ShouldExpand(page, cfg)
    THEN LET admitted == SelectSeq(page.links,
                                   LAMBDA l : Admit(l, visited, failed, cfg))
         IN  [i \in 1..Len(admitted) |-> Entry(admitted[i], page.depth + 1, page.url)]
    ELSE <<>>

\* The fields of a CrawlPage of crawl_data.pages that are read after the merge
\* (its links are read while it is merged and by the "links" statistic only).
Stored(page) ==
    [url |-> page.url, depth |-> page.depth, parent_url |-> page.parent_url,
     has_errors |-> page.has_errors, error_message |-> page.error_message]

\* FailureMessage without the "Unknown error" default
FailureMessageAsIs(page) ==
    IF page.error_message = NoMessage THEN "" ELSE page.error_message

\* page.error_message or "Unknown error"
FailureMessage(page) ==
    IF page.error_message \in {NoMessage, ""} THEN "Unknown error"
    ELSE page.error_message

\* StartBatch with the whole frontier as the batch
StartBatchWholeFrontier ==
    /\ pc = "while"
    /\ LoopCondition(to_crawl, pages, config)
    /\ tasks' = [i \in 1..Len(to_crawl) |->
                    [pc |-> "new_context",
                     page |-> CrawlPage(to_crawl[i].url, to_crawl[i].depth,
                                        to_crawl[i].parent_url),
                     context |-> "none",
                     raised_in |-> "none"]]
    /\ to_crawl' = <<>>
    /\ merged' = 0
    /\ pc' = "gather"
    /\ UNCHANGED <<other_vars, base_url, config, site, pages, visited_urls, failed_urls,
                   crawl_depth, stats, end_time, browser>>

\* One pass of the while loop up to the await of asyncio.gather: the batch is
\* sliced off to_crawl and one crawl_page coroutine is created per entry.
StartBatch ==
    /\ pc = "while"
    /\ LoopCondition(to_crawl, pages, config)
    /\ LET batch == Take(to_crawl, config.concurrency)
       IN  tasks' = [i \in 1..Len(batch) |->
                        [pc |-> "new_context",
                         page |-> CrawlPage(batch[i].url, batch[i].depth,
                                            batch[i].parent_url),
                         context |-> "none",
                         raised_in |-> "none"]]
    /\ to_crawl' = Drop(to_crawl, config.concurrency)
    /\ merged' = 0
    /\ pc' = "gather"
    /\ UNCHANGED <<other_vars, base_url, config, site, pages, visited_urls, failed_urls,
                   crawl_depth, stats, end_time, browser>>

\* GatherReturns as soon as the first coroutine has returned
GatherReturnsFirstCompleted ==
    /\ pc = "gather"
    /\ \E i \in 1..Len(tasks) : tasks[i].pc = "done"
    /\ pc' = "for"
    /\ UNCHANGED <<other_vars, base_url, config, site, to_crawl, pages, visited_urls,
                   failed_urls, crawl_depth, stats, end_time, browser, tasks,
                   merged>>

\* asyncio.gather returns the pages once every coroutine has returned.
GatherReturns ==
    /\ pc = "gather"
    /\ \A i \in 1..Len(tasks) : tasks[i].pc = "done"
    /\ pc' = "for"
    /\ UNCHANGED <<other_vars, base_url, config, site, to_crawl, pages, visited_urls,
                   failed_urls, crawl_depth, stats, end_time, browser, tasks,
                   merged>>

\* GatherRaises with the gather outside the try block: the exception leaves
\* crawl_website without passing through the finally clause
GatherRaisesOutsideTry ==
    /\ pc = "gather"
    /\ \E i \in 1..Len(tasks) : tasks[i].pc = "raised"
    /\ pc' = "raised"
    /\ UNCHANGED <<other_vars, base_url, config, site, to_crawl, pages, visited_urls,
                   failed_urls, crawl_depth, stats, end_time, browser, tasks,
                   merged>>

\* asyncio.gather propagates the first exception of a coroutine; the others
\* are not cancelled.  The exception leaves the try block of crawl_website.
GatherRaises ==
    /\ pc = "gather"
    /\ \E i \in 1..Len(tasks) : tasks[i].pc = "raised"
    /\ pc' = "finally_exc"
    /\ UNCHANGED <<other_vars, base_url, config, site, to_crawl, pages, visited_urls,
                   failed_urls, crawl_depth, stats, end_time, browser, tasks,
                   merged>>

\* The a[href] lists the document of url can hold when it is loaded: a
\* document of site is served as it is, any other is whatever the server sends.
Documents(url) ==
    IF clean_url(url) \in DOMAIN site THEN {site[clean_url(url)]}
    ELSE SeqsUpTo(Hrefs, MaxLinks)

\* crawl_page.links of a returned page: extract_links(page, base_url) with
\* base_url = scheme://netloc of the page's url; [] when the try block raised
\* (links is the last assignment of the try block).
LinksOf(result, hrefs) ==
    IF result.has_errors THEN <<>> ELSE extract_links(hrefs, result.url)

\* The body of "for page in crawled_pages" for the next page.
MergePage ==
    /\ pc = "for"
    /\ merged < Len(tasks)
    /\ \E hrefs \in Documents(tasks[merged + 1].page.url) :
        LET result == tasks[merged + 1].page
            page == [result EXCEPT !.links = LinksOf(result, hrefs)]
            visited == visited_urls \cup {page.url}
        IN  /\ pages' = Put(pages, page.url, Stored(page))
            /\ visited_urls' = visited
            /\ crawl_depth' = Max(crawl_depth, page.depth)
            /\ to_crawl' = to_crawl \o NewEntries(page, visited, failed_urls, config)
            /\ failed_urls' = IF page.has_errors
                              THEN Put(failed_urls, page.url, FailureMessage(page))
                              ELSE failed_urls
    /\ merged' = merged + 1
    /\ pc' = IF merged + 1 = Len(tasks) THEN "while" ELSE "for"
    /\ UNCHANGED <<other_vars, base_url, config, site, stats, end_time, browser, tasks>>

\* The loop condition is false: the statistics are computed.
ExitLoop ==
    /\ pc = "while"
    /\ ~LoopCondition(to_crawl, pages, config)
    /\ stats' = [k \in {"pages", "failed", "depth"} |->
                    CASE k = "pages" -> Cardinality(DOMAIN pages)
                      [] k = "failed" -> Cardinality(DOMAIN failed_urls)
                      [] k = "depth" -> crawl_depth]
    /\ pc' = "finally"
    /\ UNCHANGED <<other_vars, base_url, config, site, to_crawl, pages, visited_urls,
                   failed_urls, crawl_depth, end_time, browser, tasks, merged>>

\* finally: await browser.close(); crawl_data.end_time = ...
Finally ==
    /\ pc \in {"finally", "finally_exc"}
    /\ browser' = [state |-> "closed", closes |-> browser.closes + 1]
    /\ end_time' = TRUE
    /\ pc' = IF pc = "finally" THEN "returned" ELSE "raised"
    /\ UNCHANGED <<other_vars, base_url, config, site, to_crawl, pages, visited_urls,
                   failed_urls, crawl_depth, stats, tasks, merged>>

\* --------------------------------------------------------------- crawl_page
task_unchanged == <<other_vars, base_url, config, pc, to_crawl, pages, visited_urls,
                    failed_urls, crawl_depth, stats, end_time, browser, merged>>

\* The messages str(e) of the exceptions caught in crawl_page
ErrorMessages == {"", "Timeout 30000ms exceeded."}

\* context = await browser.new_context(...)
NewContext(i) ==
    /\ tasks[i].pc = "new_context"
    /\ browser.state = "open"
    /\ tasks' = [tasks EXCEPT ![i].pc = "new_page", ![i].context = "open"]
    /\ UNCHANGED <<task_unchanged, site>>

\* browser.new_context raises: crawl_page raises, no context exists
NewContextRaises(i) ==
    /\ tasks[i].pc = "new_context"
    /\ tasks' = [tasks EXCEPT ![i].pc = "raised", ![i].raised_in = "new_context"]
    /\ UNCHANGED <<task_unchanged, site>>

\* page = await context.new_page()
NewPage(i) ==
    /\ tasks[i].pc = "new_page"
    /\ tasks' = [tasks EXCEPT ![i].pc = "try"]
    /\ UNCHANGED <<task_unchanged, site>>

\* context.new_page raises before the try block is entered
NewPageRaises(i) ==
    /\ tasks[i].pc = "new_page"
    /\ tasks' = [tasks EXCEPT ![i].pc = "raised", ![i].raised_in = "new_page"]
    /\ UNCHANGED <<task_unchanged, site>>

\* The try block runs to its end: the document is loaded and crawl_page.links
\* is set from it.  The document is an input that nothing reads before the
\* merge, so the model draws it there (LinksOf in MergePage).
TryBody(i) ==
    /\ tasks[i].pc = "try"
    /\ tasks' = [tasks EXCEPT ![i].pc = "finally"]
    /\ UNCHANGED <<task_unchanged, site>>

\* TryExcept without the except clause: the exception leaves crawl_page
\* through the finally clause
TryExceptPropagates(i) ==
    /\ tasks[i].pc = "try"
    /\ tasks' = [tasks EXCEPT ![i].pc = "raised", ![i].raised_in = "try",
                              ![i].context = "closed"]
    /\ UNCHANGED <<task_unchanged, site>>

\* A statement of the try block raises (navigation error or timeout,
\* extraction error): except Exception as e
TryExcept(i) ==
    /\ tasks[i].pc = "try"
    /\ \E e \in ErrorMessages :
          tasks' = [tasks EXCEPT ![i].pc = "finally",
                                 ![i].raised_in = "try",
                                 ![i].page.has_errors = TRUE,
                                 ![i].page.error_message = e]
    /\ UNCHANGED <<task_unchanged, site>>

\* finally: await context.close(); return crawl_page
ContextClose(i) ==
    /\ tasks[i].pc = "finally"
    /\ tasks' = [tasks EXCEPT ![i].pc = "done", ![i].context = "closed"]
    /\ UNCHANGED <<task_unchanged, site>>

CrawlPageStep ==
    \E i \in 1..Len(tasks) :
        \/ NewContext(i)
        \/ NewContextRaises(i)
        \/ NewPage(i)
        \/ NewPageRaises(i)
        \/ TryBody(i)
        \/ TryExcept(i)
        \/ ContextClose(i)

Next ==
    \/ StartBatch
    \/ GatherReturns
    \/ GatherRaises
    \/ MergePage
    \/ ExitLoop
    \/ Finally
    \/ CrawlPageStep

Spec == Init /\ [][Next]_vars

FairSpec == Spec /\ WF_vars(Next)

\* crawl_website called with any url, one with a fragment included
AnyRootInit ==
    /\ CrawlInit(AnyRootUrls)
    /\ LinksIdle
    /\ GeneratorIdle
    /\ NamingIdle
    /\ FormIdle

AnyRootSpec == AnyRootInit /\ [][Next]_vars

\* ------------------------------------------------ extract_links on URL texts
\* The crawl above works on parsed URLs.  Here a URL is its text: Text(s, r)
\* stands for s followed by "://" and the characters r.
MaxRest == 4            \* characters of a URL text after "://"
MaxFragment == 1        \* characters of the fragments tried after a "#"

UrlChars == {"x", "/", ";", "?", "#"}

Text(scheme, rest) == [scheme |-> scheme, rest |-> rest]

\* The values of absolute_url: what urljoin returns for the href attributes
UrlTexts == {Text(s, r) : s \in {"http", "https"}, r \in SeqsUpTo(UrlChars, MaxRest)}

\* str.find: the first index from i on of a character of D, Len(s) + 1 if none
RECURSIVE Find(_, _, _)
Find(s, D, i) ==
    IF i > Len(s) THEN Len(s) + 1
    ELSE IF s[i] \in D THEN i ELSE Find(s, D, i + 1)

\* str.rfind: the last index of character c, 0 if none
RECURSIVE RFind(_, _, _)
RFind(s, c, i) ==
    IF i = 0 THEN 0
    ELSE IF s[i] = c THEN i ELSE RFind(s, c, i - 1)

Before(s, i) == SubSeq(s, 1, i - 1)
After(s, i) == SubSeq(s, i + 1, Len(s))

\* urllib.parse._splitparams: the params follow the first ";" of the last
\* path segment
splitparams(url) ==
    LET slash == RFind(url, "/", Len(url))
        i == Find(url, {";"}, IF slash = 0 THEN 1 ELSE slash)
    IN  IF i > Len(url) THEN <<url, <<>>>> ELSE <<Before(url, i), After(url, i)>>

\* urllib.parse.urlparse: the netloc ends at the first of "/", "?", "#"; then
\* the fragment is split off at the first "#", the query at the first "?" and
\* the params off the path
urlparse(u) ==
    LET n == Find(u.rest, {"/", "?", "#"}, 1)
        url == SubSeq(u.rest, n, Len(u.rest))
        h == Find(url, {"#"}, 1)
        q == Find(Before(url, h), {"?"}, 1)
        sp == splitparams(Before(Before(url, h), q))
    IN  [scheme |-> u.scheme,
         netloc |-> Before(u.rest, n),
         path |-> sp[1],
         params |-> sp[2],
         query |-> After(Before(url, h), q),
         fragment |-> After(url, h)]

\* urllib.parse.urlunparse: empty params, query and fragment are left out with
\* their delimiter; a path that begins with "//" after an empty netloc is
\* written without the "//" of the netloc
urlunparse(p) ==
    LET url == IF p.params # <<>> THEN p.path \o <<";">> \o p.params ELSE p.path
        rooted == IF url # <<>> /\ Head(url) # "/" THEN <<"/">> \o url ELSE url
        withnetloc == IF p.netloc # <<>> \/ Take(url, 2) # <<"/", "/">>
                      THEN p.netloc \o rooted
                      ELSE Drop(url, 2)
        withquery == IF p.query # <<>> THEN withnetloc \o <<"?">> \o p.query
                     ELSE withnetloc
    IN  Text(p.scheme,
             IF p.fragment # <<>> THEN withquery \o <<"#">> \o p.fragment
             ELSE withquery)

\* CleanUrl with the fragment kept
CleanUrlWithFragment(absolute_url) ==
    urlunparse(urlparse(absolute_url))

\* clean_url = urlunparse((scheme, netloc, path, params, query, "")) of
\* urlparse(absolute_url)
CleanUrl(absolute_url) ==
    urlunparse([urlparse(absolute_url) EXCEPT !.fragment = <<>>])

\* absolute_url.startswith(base_url)
StartsWith(absolute_url, base) ==
    absolute_url.scheme = base.scheme /\ IsPrefix(base.rest, absolute_url.rest)

\* the list extract_links returns for the absolute URLs of the a[href] elements
ExtractLinks(absolute_urls, base) ==
    LET retained == SelectSeq(absolute_urls, LAMBDA u : StartsWith(u, base))
    IN  [i \in 1..Len(retained) |-> CleanUrl(retained[i])]

\* base_url = f"{urlparse(url).scheme}://{urlparse(url).netloc}" in crawl_page
BaseUrl(url) == Text(urlparse(url).scheme, urlparse(url).netloc)

\* The URLs of the pages whose links are extracted
PageUrls ==
    {Text("http", <<"x">>), Text("http", <<"x", "/", "x">>),
     Text("https", <<"x", "/">>), Text("http", <<"x", "x", "?", "x">>)}

\* u with its fragment removed, replaced or added
FragmentVariants(u) ==
    LET stem == Before(u.rest, Find(u.rest, {"#"}, 1))
    IN  {Text(u.scheme, stem)}
        \cup {Text(u.scheme, stem \o <<"#">> \o f) : f \in SeqsUpTo(UrlChars, MaxFragment)}

\* The lists of absolute URLs of a page: one link, or one without fragment
\* followed by the same with a fragment (as long as it is a URL text)
HrefLists ==
    {<<u>> : u \in UrlTexts}
    \cup UNION {{<<u, v>> : v \in {w \in FragmentVariants(u) : w # u /\ Len(w.rest) <= MaxRest}} :
                   u \in {t \in UrlTexts : Find(t.rest, {"#"}, 1) > Len(t.rest)}}

LinksInit ==
    /\ \E url \in PageUrls : href_base = BaseUrl(url)
    /\ href_list \in HrefLists
    /\ href_links = <<>>
    /\ href_pc = "called"
    /\ CrawlIdle
    /\ GeneratorIdle
    /\ NamingIdle
    /\ FormIdle

\* extract_links runs and returns links
ExtractLinksCall ==
    /\ href_pc = "called"
    /\ href_links' = ExtractLinks(href_list, href_base)
    /\ href_pc' = "returned"
    /\ UNCHANGED <<crawl_vars, generator_vars, naming_vars, form_vars, href_base,
                   href_list>>

LinksNext == ExtractLinksCall

LinksSpec == LinksInit /\ [][LinksNext]_vars

\* ------------------------------------------------------- names of the generator
\* A str is the sequence of its characters.
LowerCase == <<"a", "b", "c", "d", "e", "f", "g", "h", "i", "j", "k", "l", "m",
               "n", "o", "p", "q", "r", "s", "t", "u", "v", "w", "x", "y", "z">>
UpperCase == <<"A", "B", "C", "D", "E", "F", "G", "H", "I", "J", "K", "L", "M",
               "N", "O", "P", "Q", "R", "S", "T", "U", "V", "W", "X", "Y", "Z">>
Digits == <<"0", "1", "2", "3", "4", "5", "6", "7", "8", "9">>

Chars(s) == {s[i] : i \in DOMAIN s}
IndexIn(s, c) == CHOOSE i \in DOMAIN s : s[i] = c

\* the classes [a-z], [A-Z], [0-9] of the regular expressions; str.isalpha on
\* the characters the first substitution of sanitize_name leaves
IsLower(c) == c \in Chars(LowerCase)
IsUpper(c) == c \in Chars(UpperCase)
IsDigit(c) == c \in Chars(Digits)
IsAlpha(c) == IsLower(c) \/ IsUpper(c)
IsAlnum(c) == IsAlpha(c) \/ IsDigit(c)

\* str.lower and str.upper of one character
LowerChar(c) == IF IsUpper(c) THEN LowerCase[IndexIn(UpperCase, c)] ELSE c
UpperChar(c) == IF IsLower(c) THEN UpperCase[IndexIn(LowerCase, c)] ELSE c

\* str.lower
Lower(s) == [i \in DOMAIN s |-> LowerChar(s[i])]

\* str.title: a letter that follows no letter is upper-cased, any other letter
\* lower-cased
Title(s) ==
    [i \in DOMAIN s |->
        IF i = 1 \/ ~IsAlpha(s[i - 1]) THEN UpperChar(s[i]) ELSE LowerChar(s[i])]

\* str.strip(c)
RECURSIVE LStrip(_, _)
LStrip(s, c) == IF s # <<>> /\ Head(s) = c THEN LStrip(Tail(s), c) ELSE s

RECURSIVE RStrip(_, _)
RStrip(s, c) ==
    IF s # <<>> /\ s[Len(s)] = c THEN RStrip(SubSeq(s, 1, Len(s) - 1), c) ELSE s

Strip(s, c) == RStrip(LStrip(s, c), c)

\* str.split(c): the pieces between the occurrences of c, empty ones included
RECURSIVE Split(_, _)
Split(s, c) ==
    LET i == Find(s, {c}, 1)
    IN  IF i > Len(s) THEN <<s>> ELSE <<Before(s, i)>> \o Split(After(s, i), c)

\* "".join(words)
RECURSIVE Join(_)
Join(words) == IF words = <<>> THEN <<>> ELSE Head(words) \o Join(Tail(words))

\* str.endswith and the in of two strs
EndsWith(s, suffix) ==
    Len(suffix) <= Len(s) /\ SubSeq(s, Len(s) - Len(suffix) + 1, Len(s)) = suffix

Contains(s, sub) ==
    \E i \in 0..(Len(s) - Len(sub)) : SubSeq(s, i + 1, i + Len(sub)) = sub

\* re.sub(r"[^a-zA-Z0-9]", "_", name)
ReplaceNonAlnum(name) == [i \in DOMAIN name |-> IF IsAlnum(name[i]) THEN name[i] ELSE "_"]

\* if not name[0].isalpha(): name = f"page_{name}"
PagePrefix(name) ==
    IF IsAlpha(name[1]) THEN name ELSE <<"p", "a", "g", "e", "_">> \o name

\* re.sub(r"([a-z0-9])([A-Z])", r"\1_\2", name): an underscore between a lower
\* case letter or digit and the upper case letter that follows it
RECURSIVE SnakeCase(_)
SnakeCase(name) ==
    IF Len(name) < 2 THEN name
    ELSE IF (IsLower(name[1]) \/ IsDigit(name[1])) /\ IsUpper(name[2])
         THEN <<name[1], "_">> \o SnakeCase(Tail(name))
         ELSE <<name[1]>> \o SnakeCase(Tail(name))

\* re.sub(r"_+", "_", name)
RECURSIVE CollapseUnderscores(_)
CollapseUnderscores(name) ==
    IF Len(name) < 2 THEN name
    ELSE IF name[1] = "_" /\ name[2] = "_" THEN CollapseUnderscores(Tail(name))
         ELSE <<name[1]>> \o CollapseUnderscores(Tail(name))

\* sanitize_name raises IndexError at name[0] on the empty str
SanitizeNameRaises(name) == name = <<>>

\* sanitize_name of a name that is not empty
SanitizeName(name) ==
    Strip(CollapseUnderscores(Lower(SnakeCase(PagePrefix(ReplaceNonAlnum(name))))), "_")

HomePage == <<"H", "o", "m", "e", "P", "a", "g", "e">>
PageSuffix == <<"P", "a", "g", "e">>

\* the characters of the scheme of a URL text
SchemeChars(scheme) ==
    IF scheme = "https" THEN <<"h", "t", "t", "p", "s">> ELSE <<"h", "t", "t", "p">>

\* re.sub(r"^https?://[^/]+", "", url): the text of url without its scheme and
\* the characters up to the first "/"; the whole text when no character other
\* than "/" follows the "://"
UrlPath(url) ==
    IF url.scheme \in {"http", "https"} /\ url.rest # <<>> /\ Head(url.rest) # "/"
    THEN SubSeq(url.rest, Find(url.rest, {"/"}, 1), Len(url.rest))
    ELSE SchemeChars(url.scheme) \o <<":", "/", "/">> \o url.rest

\* the name create_page_object_name sanitizes: the title, else the last piece
\* of the url path between "/", else "HomePage"
PageNameSource(title, url) ==
    IF title # <<>> THEN title
    ELSE LET url_path == Strip(UrlPath(url), "/")
             pieces == Split(url_path, "/")
         IN  IF url_path = <<>> THEN HomePage
             ELSE IF pieces[Len(pieces)] # <<>> THEN pieces[Len(pieces)]
                  ELSE pieces[Len(pieces) - 1]

\* CamelCase without the test of the suffix: "Page" is always appended
CamelCaseWithPage(name) ==
    Join([i \in DOMAIN Split(SanitizeName(name), "_") |->
             Title(Split(SanitizeName(name), "_")[i])]) \o PageSuffix

\* "".join(word.title() for word in sanitize_name(name).split("_")), with
\* "Page" appended unless it ends with "Page"
CamelCase(name) ==
    LET words == Split(SanitizeName(name), "_")
        camel_case == Join([i \in DOMAIN words |-> Title(words[i])])
    IN  IF EndsWith(camel_case, PageSuffix) THEN camel_case
        ELSE camel_case \o PageSuffix

CreatePageObjectName(title, url) == CamelCase(PageNameSource(title, url))

\* create_test_name: "Test" and page_object.name without its suffix "Page"
CreateTestName(name) ==
    <<"T", "e", "s", "t">>
    \o (IF EndsWith(name, PageSuffix) THEN SubSeq(name, 1, Len(name) - 4) ELSE name)

\* file_name = sanitize_name(name).lower() + ".py" of create_page_object and
\* f"test_{sanitize_name(page_object.name).lower()}.py" of
\* create_test_from_page_object
DotPy == <<".", "p", "y">>
PageObjectFileName(name) == Lower(SanitizeName(name)) \o DotPy
TestFileName(name) == <<"t", "e", "s", "t", "_">> \o Lower(SanitizeName(name)) \o DotPy

\* ------------------------------------------------------------ generate_tests
MaxElements == 8        \* interactive elements of a page
MaxFields == 2          \* fields of a form
ElementAssertionLimit == 5

\* A CrawlElement as the generator reads it.  name stands for the text, id,
\* class or element type create_element_name derives the name from, already
\* sanitized; <<>> when all of them are empty.
CrawlElement(name, element_type, is_visible, is_clickable, selector) ==
    [name |-> name, element_type |-> element_type, is_visible |-> is_visible,
     is_clickable |-> is_clickable, selector |-> selector]

\* element_type=f"input-{input_type}" of a form field, "submit" of the submit
\* button (extract_forms)
InputType(input_type) == <<"input", "-", input_type>>
SubmitType == <<"submit">>

\* CrawlForm; submit_button is <<>> for None
CrawlForm(fields, submit_button) ==
    [fields |-> fields, submit_button |-> submit_button]

\* The fields of a CrawlPage generate_tests reads; title is "" unless the
\* document has one
CrawledPage(url, status_code, has_errors, elements, forms) ==
    [url |-> url, title |-> <<>>, status_code |-> status_code,
     has_errors |-> has_errors, elements |-> elements, forms |-> forms]

\* page with title = await page.title() of its document
Titled(page, title) == [page EXCEPT !.title = title]

\* str(page.url) of the pages generate_tests is given: / and /p1 .. /p9 of
\* http://x, without extension or fragment
UrlText(url) ==
    Text(url.scheme,
         url.netloc \o (IF url.path = 0 THEN <<"/">>
                        ELSE <<"/", "p", Digits[url.path + 1]>>))

\* A dict is the sequence of its <<key, value>> items in insertion order;
\* d[k] = v on a key already present replaces the value in place.
DictKeys(d) == [i \in DOMAIN d |-> d[i][1]]

\* DictSet that keeps the value of a key already present (dict.setdefault)
DictSetDefault(d, k, v) ==
    IF \E i \in DOMAIN d : d[i][1] = k THEN d ELSE Append(d, <<k, v>>)
DictSet(d, k, v) ==
    IF \E i \in DOMAIN d : d[i][1] = k
    THEN [i \in DOMAIN d |-> IF d[i][1] = k THEN <<k, v>> ELSE d[i]]
    ELSE Append(d, <<k, v>>)

\* sanitize_name raises IndexError on the empty string (name[0])
create_element_name_raises(element) == element.name = <<>>

create_element_name(element) == element.name

create_element_locator(element) ==
    [name |-> create_element_name(element), selector |-> element.selector,
     element_type |-> element.element_type]

\* for element in page.elements: if element.is_visible and element.is_clickable
RECURSIVE PageObjectElements(_, _)
PageObjectElements(elements, dict) ==
    IF elements = <<>> THEN dict
    ELSE LET element == Head(elements)
             locator == create_element_locator(element)
         IN  PageObjectElements(Tail(elements),
                 IF element.is_visible /\ element.is_clickable
                 THEN DictSet(dict, locator.name, locator)
                 ELSE dict)

\* form_elements of one form: the locators of its visible fields, then the
\* locator of its submit button if it has one
FormElements(form) ==
    LET visible == SelectSeq(form.fields, LAMBDA field : field.is_visible)
    IN  [i \in DOMAIN visible |-> create_element_locator(visible[i])]
        \o [i \in DOMAIN form.submit_button |->
               create_element_locator(form.submit_button[i])]

\* for form in page.forms, with form_name = f"form_{len(page_object.forms) + 1}"
RECURSIVE PageObjectForms(_, _)
PageObjectForms(forms, dict) ==
    IF forms = <<>> THEN dict
    ELSE LET form_name == <<"form", Len(dict) + 1>>
             form_elements == FormElements(Head(forms))
         IN  PageObjectForms(Tail(forms),
                 IF form_elements # <<>>
                 THEN DictSet(dict, form_name, form_elements)
                 ELSE dict)

\* element.element_type.startswith("input")
IsInputTyped(locator) == Take(locator.element_type, 1) = <<"input">>

\* HasFillMethod without the test of submit_element
HasFillMethodWithoutSubmit(form_elements) ==
    \E i \in DOMAIN form_elements : IsInputTyped(form_elements[i])

\* if submit_element and field_assignments
HasFillMethod(form_elements) ==
    /\ \E i \in DOMAIN form_elements : form_elements[i].element_type = SubmitType
    /\ \E i \in DOMAIN form_elements : IsInputTyped(form_elements[i])

\* The keys of page_object.methods: __init__, navigate, one getter per element
\* and one fill method per form that has one
PageObjectMethods(elements, forms) ==
    LET filled == SelectSeq(forms, LAMBDA item : HasFillMethod(item[2]))
    IN  <<<<"__init__">>, <<"navigate">>>>
        \o [i \in DOMAIN elements |-> <<"get", elements[i][1]>>]
        \o [i \in DOMAIN filled |-> <<"fill", filled[i][1]>>]

\* create_page_object raises when an element it names has no name
create_page_object_raises(page) ==
    \E i \in DOMAIN page.elements :
        /\ page.elements[i].is_visible /\ page.elements[i].is_clickable
        /\ create_element_name_raises(page.elements[i])

create_page_object(page) ==
    LET elements == PageObjectElements(page.elements, <<>>)
        forms == PageObjectForms(page.forms, <<>>)
        name == CreatePageObjectName(page.title, UrlText(page.url))
    IN  [name |-> name, file_name |-> PageObjectFileName(name),
         url |-> page.url, title |-> page.title,
         elements |-> elements, forms |-> forms,
         methods |-> PageObjectMethods(elements, forms)]

TestCase(case_type, assertions, form_name, sample_data) ==
    [case_type |-> case_type, assertions |-> assertions,
     form_name |-> form_name, sample_data |-> sample_data]

\* ElementsTestCase with an assertion for every element
ElementsTestCaseUnlimited(page_object) ==
    IF page_object.elements = <<>> THEN <<>>
    ELSE <<TestCase("elements", DictKeys(page_object.elements), <<>>, <<>>)>>

\* create_test_case(page_object, test_name, "elements"): <<>> for "", else
\* one visibility assertion per element of list(elements.items())[:5]
ElementsTestCase(page_object) ==
    IF page_object.elements = <<>> THEN <<>>
    ELSE <<TestCase("elements",
                    Take(DictKeys(page_object.elements), ElementAssertionLimit),
                    <<>>, <<>>)>>

\* create_test_case(page_object, test_name, "form"): the first form, sample
\* data for its input-typed locators, a call of fill_{form_name}
FormTestCase(page_object) ==
    IF page_object.forms = <<>> THEN <<>>
    ELSE LET form_name == page_object.forms[1][1]
             inputs == SelectSeq(page_object.forms[1][2], IsInputTyped)
             sample_data == {inputs[i].name : i \in DOMAIN inputs}
         IN  IF sample_data = {} THEN <<>>
             ELSE <<TestCase("form", <<>>, form_name, sample_data)>>

\* The methods of page_object the code of a test case calls: navigate() in
\* every case, get_{element_name}() per assertion, fill_{form_name}(form_data)
CalledMethods(test_case) ==
    {<<"navigate">>}
    \cup {<<"get", test_case.assertions[i]>> : i \in DOMAIN test_case.assertions}
    \cup (IF test_case.case_type = "form"
          THEN {<<"fill", test_case.form_name>>} ELSE {})

\* test.test_cases of create_test_from_page_object
TestCases(page_object) ==
    <<TestCase("navigation", <<>>, <<>>, <<>>)>>
    \o ElementsTestCase(page_object)
    \o FormTestCase(page_object)

\* A GeneratedFile: file_path is <<directory under test_dir, file name>>; the
\* content is the url of its page with the methods or test cases it defines
GeneratedFile(file_type, file_path, url, methods, test_cases) ==
    [file_type |-> file_type, file_path |-> file_path, url |-> url,
     methods |-> methods, test_cases |-> test_cases]

ConftestPy == <<"c", "o", "n", "f", "t", "e", "s", "t">> \o DotPy
InitPy == <<"_", "_", "i", "n", "i", "t", "_", "_">> \o DotPy

\* generate_conftest and generate_init_files([test_dir, page_objects_dir,
\* tests_dir])
SupportFiles ==
    <<GeneratedFile("conftest", <<"tests", ConftestPy>>, None, <<>>, <<>>),
      GeneratedFile("init", <<"", InitPy>>, None, <<>>, <<>>),
      GeneratedFile("init", <<"page_objects", InitPy>>, None, <<>>, <<>>),
      GeneratedFile("init", <<"tests", InitPy>>, None, <<>>, <<>>)>>

\* write_generated_files: open(file.file_path, "w") for each file in turn, a
\* later file of the same path replacing the earlier
RECURSIVE WriteFiles(_, _)
WriteFiles(files, disk) ==
    IF files = <<>> THEN disk
    ELSE WriteFiles(Tail(files), Put(disk, Head(files).file_path, Head(files)))

\* Eligible with <= for <
EligibleUpTo400(page) ==
    ~page.has_errors /\ page.status_code <= 400

\* if not page.has_errors and page.status_code < 400
Eligible(page) ==
    ~page.has_errors /\ page.status_code < 400

\* The interactive elements of a page: n visible links named in rounds of k
\* names, of which element h (if any) is hidden and element u (if any) has no
\* text, id, class or type to be named by (it was matched by [role='button']
\* and has no type attribute: element_type "")
ElementName(i) == <<"link", i>>

ElementList(n, k, h, u) ==
    [i \in 1..n |->
        CrawlElement(IF i = u THEN <<>> ELSE ElementName(((i - 1) % k) + 1),
                     IF i = u THEN <<>> ELSE <<"a">>, i # h, i # h, i)]

ElementLists ==
    {ElementList(n, k, h, u) :
        n \in 0..MaxElements, k \in 1..MaxElements, h \in 0..MaxElements,
        u \in {0, 1}}

\* The fields and submit buttons extract_forms finds: visible e-mail and
\* password inputs, an input that is not visible; no button, a visible one, a
\* hidden one
EmailField == CrawlElement(<<"email">>, InputType("email"), TRUE, FALSE, 1)
PasswordField == CrawlElement(<<"password">>, InputType("password"), TRUE, FALSE, 2)
HiddenField == CrawlElement(<<"token">>, InputType("hidden"), FALSE, FALSE, 3)
SubmitButton(is_visible) == CrawlElement(<<"submit">>, SubmitType, is_visible, TRUE, 4)

FormSamples ==
    {CrawlForm(fields, submit_button) :
        fields \in SeqsUpTo({EmailField, PasswordField, HiddenField}, MaxFields),
        submit_button \in {<<>>, <<SubmitButton(TRUE)>>, <<SubmitButton(FALSE)>>}}

\* the forms of the pages with two forms: nothing visible, a password field
\* without button, a complete form
FewForms ==
    {CrawlForm(<<HiddenField>>, <<>>), CrawlForm(<<PasswordField>>, <<>>),
     CrawlForm(<<EmailField>>, <<SubmitButton(TRUE)>>)}

FormLists ==
    SeqsUpTo(FormSamples, 1) \cup {<<f, g>> : f \in FewForms, g \in FewForms}

\* status_code and has_errors of a crawled page
PageStates ==
    {<<200, FALSE>>, <<399, FALSE>>, <<400, FALSE>>, <<404, FALSE>>,
     <<200, TRUE>>, <<500, TRUE>>}

\* pages loaded without error, with many elements or with forms
RichPages(url) ==
    {CrawledPage(url, 200, FALSE, elements, <<>>) : elements \in ElementLists}
    \cup {CrawledPage(url, 200, FALSE, <<>>, forms) : forms \in FormLists}

\* pages in any state with nothing, one link, one element without name or one
\* complete form
SmallPages(url) ==
    {CrawledPage(url, st[1], st[2], content[1], content[2]) :
        st \in PageStates,
        content \in {<<<<>>, <<>>>>,
                     <<ElementList(1, 1, 0, 0), <<>>>>,
                     <<ElementList(1, 1, 0, 1), <<>>>>,
                     <<<<>>, <<CrawlForm(<<EmailField>>, <<SubmitButton(TRUE)>>)>>>>}}

\* the titles of the pages with a title
PageTitles ==
    {<<"H", "o", "m", "e">>, <<"C", "o", "n", "t", "a", "c", "t", " ", "U", "s">>}

\* two pages loaded without error, each with a title or without
TitledPairs ==
    {<<Titled(CrawledPage(Url(0), 200, FALSE, <<>>, <<>>), t[1]),
       Titled(CrawledPage(Url(1), 200, FALSE, <<>>, <<>>), t[2])>> :
        t \in (PageTitles \cup {<<>>}) \X (PageTitles \cup {<<>>})}

\* crawl_data.pages.values(): one page, or two small ones
CrawledPageLists ==
    {<<p>> : p \in RichPages(Url(0)) \cup SmallPages(Url(0))}
    \cup {<<p, q>> : p \in SmallPages(Url(0)), q \in SmallPages(Url(1))}
    \cup TitledPairs

GeneratorInit ==
    /\ gen_pages \in CrawledPageLists
    /\ page_objects = <<>>
    /\ page_object_files = <<>>
    /\ test_files = <<>>
    /\ all_files = <<>>
    /\ written_files = EmptyMap
    /\ gen_pc = "page_objects"
    /\ CrawlIdle
    /\ LinksIdle
    /\ NamingIdle
    /\ FormIdle

\* the pages of crawl_data.pages.values() a page object is created for
EligiblePages == SelectSeq(gen_pages, Eligible)

\* for page in crawl_data.pages.values(): create_page_object of the eligible
GeneratePageObjects ==
    /\ gen_pc = "page_objects"
    /\ \A i \in DOMAIN EligiblePages : ~create_page_object_raises(EligiblePages[i])
    /\ page_objects' = [i \in DOMAIN EligiblePages |-> create_page_object(EligiblePages[i])]
    /\ gen_pc' = "page_object_files"
    /\ UNCHANGED <<crawl_vars, links_vars, naming_vars, form_vars, written_files,
                   gen_pages, page_object_files,
                   test_files, all_files>>

\* create_page_object raises IndexError: generate_tests raises before any file
\* is generated or written
GeneratePageObjectsRaises ==
    /\ gen_pc = "page_objects"
    /\ \E i \in DOMAIN EligiblePages : create_page_object_raises(EligiblePages[i])
    /\ gen_pc' = "raised"
    /\ UNCHANGED <<crawl_vars, links_vars, naming_vars, form_vars, written_files,
                   gen_pages, page_objects,
                   page_object_files, test_files, all_files>>

\* for page_object in page_objects: generate_page_object_file
GeneratePageObjectFiles ==
    /\ gen_pc = "page_object_files"
    /\ page_object_files' =
          [i \in DOMAIN page_objects |->
              GeneratedFile("page_object",
                            <<"page_objects", page_objects[i].file_name>>,
                            page_objects[i].url, page_objects[i].methods, <<>>)]
    /\ gen_pc' = "test_files"
    /\ UNCHANGED <<crawl_vars, links_vars, naming_vars, form_vars, written_files,
                   gen_pages, page_objects, test_files,
                   all_files>>

\* for page_object in page_objects: create_test_from_page_object, and
\* generate_test_file if test.test_cases
GenerateTestFiles ==
    /\ gen_pc = "test_files"
    /\ LET tested == SelectSeq(page_objects, LAMBDA po : TestCases(po) # <<>>)
       IN  test_files' =
              [i \in DOMAIN tested |->
                  GeneratedFile("test", <<"tests", TestFileName(tested[i].name)>>,
                                tested[i].url, <<>>, TestCases(tested[i]))]
    /\ gen_pc' = "write"
    /\ UNCHANGED <<crawl_vars, links_vars, naming_vars, form_vars, written_files,
                   gen_pages, page_objects,
                   page_object_files, all_files>>

\* conftest, the three __init__.py files, write_generated_files(all_files) and
\* return all_files
WriteGeneratedFiles ==
    /\ gen_pc = "write"
    /\ all_files' = page_object_files \o test_files \o SupportFiles
    /\ written_files' = WriteFiles(all_files', written_files)
    /\ gen_pc' = "returned"
    /\ UNCHANGED <<crawl_vars, links_vars, naming_vars, form_vars, gen_pages,
                   page_objects, page_object_files, test_files>>

GeneratorNext ==
    \/ GeneratePageObjects
    \/ GeneratePageObjectsRaises
    \/ GeneratePageObjectFiles
    \/ GenerateTestFiles
    \/ WriteGeneratedFiles

GeneratorSpec == GeneratorInit /\ [][GeneratorNext]_vars

\* attr_class.split()[0]: the first of the pieces of s between blanks;
\* IndexError when s holds nothing but blanks
FirstTokenRaises(s) == LStrip(s, " ") = <<>>

FirstToken(s) ==
    LET t == LStrip(s, " ") IN Before(t, Find(t, {" "}, 1))

\* A CrawlElement as create_element_name reads it: its text, the id and
\* class of its attributes, its element_type
NamedElement(text, id, class, element_type) ==
    [kind |-> "element", text |-> text, id |-> id, class |-> class,
     element_type |-> element_type]

\* the name create_element_name sanitizes: the text, else the id, else the
\* first class, else the element type
ElementNameSource(element) ==
    IF element.text # <<>> THEN element.text
    ELSE IF element.id # <<>> THEN element.id
    ELSE IF element.class # <<>> THEN FirstToken(element.class)
    ELSE element.element_type

\* create_element_name raises IndexError: in attr_class.split()[0], or in
\* sanitize_name when text, id, class and element_type are all empty
CreateElementNameRaises(element) ==
    \/ /\ element.text = <<>> /\ element.id = <<>> /\ element.class # <<>>
       /\ FirstTokenRaises(element.class)
    \/ SanitizeNameRaises(ElementNameSource(element))

\* create_element_name when it returns
CreateElementName(element) ==
    LET sanitized == SanitizeName(ElementNameSource(element))
    IN  IF Contains(sanitized, element.element_type) THEN sanitized
        ELSE element.element_type \o <<"_">> \o sanitized

\* ----- create_page_object_name, create_test_name and create_element_name
\* taken by themselves
MaxTitle == 3           \* characters of the titles tried
MaxPath == 3            \* characters of a url after its host

TitleChars == {"a", "B", "1", " "}
PathChars == {"x", "/", "?"}

NamedPage(title, url) == [kind |-> "page", title |-> title, url |-> url]

\* the pages to be named: a title of a few characters, "Contact Us" or
\* "Home Page"; or no title and a url of host x
PagesToName ==
    {NamedPage(title, Text("http", <<"x", "/", "x">>)) :
        title \in (SeqsUpTo(TitleChars, MaxTitle) \ {<<>>}) \cup PageTitles
                  \cup {<<"H", "o", "m", "e", " ", "P", "a", "g", "e">>}}
    \cup {NamedPage(<<>>, Text(scheme, <<"x">> \o rest)) :
             scheme \in {"http", "https"}, rest \in SeqsUpTo(PathChars, MaxPath)}

\* the elements extract_elements returns, by what they can be named by: an
\* element matched by [role='button'] without type attribute has
\* element_type ""
ElementsToName ==
    {NamedElement(text, id, class, element_type) :
        text \in {<<>>, <<"G", "o">>},
        id \in {<<>>, <<"g", "o">>},
        class \in {<<>>, <<" ">>, <<"b", " ", "c">>},
        element_type \in {<<>>, <<"a">>, <<"b", "u", "t", "t", "o", "n">>}}

NamingInit ==
    /\ naming_input \in PagesToName \cup ElementsToName
    /\ naming_name = <<>>
    /\ naming_test_name = <<>>
    /\ naming_pc = "called"
    /\ CrawlIdle
    /\ LinksIdle
    /\ GeneratorIdle
    /\ FormIdle

\* name = create_page_object_name(page)
CreatePageObjectNameCall ==
    /\ naming_pc = "called"
    /\ naming_input.kind = "page"
    /\ naming_name' = CreatePageObjectName(naming_input.title, naming_input.url)
    /\ naming_pc' = "named"
    /\ UNCHANGED <<crawl_vars, links_vars, generator_vars, form_vars, naming_input,
                   naming_test_name>>

\* test_name = create_test_name(page_object)
CreateTestNameCall ==
    /\ naming_pc = "named"
    /\ naming_test_name' = CreateTestName(naming_name)
    /\ naming_pc' = "returned"
    /\ UNCHANGED <<crawl_vars, links_vars, generator_vars, form_vars, naming_input,
                   naming_name>>

\* create_element_name(element) returns
CreateElementNameCall ==
    /\ naming_pc = "called"
    /\ naming_input.kind = "element"
    /\ ~CreateElementNameRaises(naming_input)
    /\ naming_name' = CreateElementName(naming_input)
    /\ naming_pc' = "returned"
    /\ UNCHANGED <<crawl_vars, links_vars, generator_vars, form_vars, naming_input,
                   naming_test_name>>

\* create_element_name(element) raises IndexError
CreateElementNameCallRaises ==
    /\ naming_pc = "called"
    /\ naming_input.kind = "element"
    /\ CreateElementNameRaises(naming_input)
    /\ naming_pc' = "raised"
    /\ UNCHANGED <<crawl_vars, links_vars, generator_vars, form_vars, naming_input,
                   naming_name, naming_test_name>>

NamingNext ==
    \/ CreatePageObjectNameCall
    \/ CreateTestNameCall
    \/ CreateElementNameCall
    \/ CreateElementNameCallRaises

NamingSpec == NamingInit /\ [][NamingNext]_vars

\* ------------------------------ one form, from the document to its form test
Email == <<"e", "m", "a", "i", "l">>
Password == <<"p", "a", "s", "s", "w", "o", "r", "d">>
NameWord == <<"n", "a", "m", "e">>
Phone == <<"p", "h", "o", "n", "e">>
TextWord == <<"t", "e", "x", "t">>
InputDash == <<"i", "n", "p", "u", "t", "-">>

\* the sample values: the four fixed strs, and f"test_{name}"
DummyEmail == <<"test@example.com">>
DummyPassword == <<"Password123!">>
DummyName == <<"Test User">>
DummyPhone == <<"123-456-7890">>
TestValue(name) == <<"test_">> \o name

\* d[k] of a dict that has the key k
DictGet(d, k) == d[CHOOSE i \in DOMAIN d : d[i][1] = k][2]

\* An input, select or textarea of a form as extract_forms reads it: its
\* type, name, id and placeholder attributes (<<>> when missing) and whether
\* it is visible
DomField(type, name, id, placeholder, is_visible) ==
    [type |-> type, name |-> name, id |-> id, placeholder |-> placeholder,
     is_visible |-> is_visible]

\* input_type = await input_element.get_attribute("type") or "text"
InputTypeOf(field) == IF field.type # <<>> THEN field.type ELSE TextWord

\* field_element = CrawlElement(element_type=f"input-{input_type}",
\* text=input_placeholder, attributes={type, name, id, placeholder}, ...)
FieldElement(field) ==
    [kind |-> "element", text |-> field.placeholder, id |-> field.id,
     class |-> <<>>, element_type |-> InputDash \o InputTypeOf(field),
     name |-> field.name, is_visible |-> field.is_visible]

\* ExtractedSampleValue with the rules on the name before those on the type
ExtractedSampleValueNameFirst(input_type, input_name) ==
    IF Contains(Lower(input_name), NameWord) THEN DummyName
    ELSE IF Contains(Lower(input_name), Phone) THEN DummyPhone
    ELSE IF input_type = Email THEN DummyEmail
    ELSE IF input_type = Password THEN DummyPassword
    ELSE TestValue(input_name)

\* the value extract_forms stores in form.sample_data[input_name]
ExtractedSampleValue(input_type, input_name) ==
    IF input_type = Email THEN DummyEmail
    ELSE IF input_type = Password THEN DummyPassword
    ELSE IF Contains(Lower(input_name), NameWord) THEN DummyName
    ELSE IF Contains(Lower(input_name), Phone) THEN DummyPhone
    ELSE TestValue(input_name)

\* form.sample_data after the loop over the fields: if input_name: ...
RECURSIVE ExtractedSampleData(_, _)
ExtractedSampleData(fields, dict) ==
    IF fields = <<>> THEN dict
    ELSE LET field == Head(fields)
         IN  ExtractedSampleData(Tail(fields),
                 IF field.name # <<>>
                 THEN DictSet(dict, field.name,
                              ExtractedSampleValue(InputTypeOf(field), field.name))
                 ELSE dict)

\* the CrawlForm extract_forms returns for a form without submit button
ExtractedForm(fields) ==
    [fields |-> [i \in DOMAIN fields |-> FieldElement(fields[i])],
     sample_data |-> ExtractedSampleData(fields, <<>>)]

\* the value create_test_case stores in sample_data[element.name]
TestSampleValue(name) ==
    IF Contains(name, Email) THEN DummyEmail
    ELSE IF Contains(name, Password) THEN DummyPassword
    ELSE IF Contains(name, NameWord) THEN DummyName
    ELSE TestValue(name)

\* sample_data of create_test_case(page_object, test_name, "form") for the
\* locators of the form: those of its visible fields, named by
\* create_element_name, when element_type.startswith("input")
RECURSIVE TestSampleData(_, _)
TestSampleData(elements, dict) ==
    IF elements = <<>> THEN dict
    ELSE LET name == CreateElementName(Head(elements))
         IN  TestSampleData(Tail(elements),
                 IF /\ Head(elements).is_visible
                    /\ IsPrefix(<<"i", "n", "p", "u", "t">>, Head(elements).element_type)
                 THEN DictSet(dict, name, TestSampleValue(name))
                 ELSE dict)

\* the fields tried: any type, name, id, placeholder and visibility
DomFields ==
    {DomField(type, name, id, placeholder, is_visible) :
        type \in {<<>>, TextWord, Email, Password},
        name \in {<<>>, <<"q">>, Phone, <<"u", "s", "e", "r">> \o NameWord,
                  <<"u", "s", "e", "r", "_">> \o Email, <<"N", "a", "m", "e">>},
        id \in {<<>>, Email},
        placeholder \in {<<>>, <<"P", "h", "o", "n", "e">>},
        is_visible \in BOOLEAN}

\* the forms tried: one field, or two visible fields of one name
DomForms ==
    {<<field>> : field \in DomFields}
    \cup {<<DomField(type[1], Phone, <<>>, <<>>, TRUE),
            DomField(type[2], Phone, <<>>, <<>>, TRUE)>> :
             type \in {<<>>, Email, Password} \X {<<>>, Email, Password}}

FormInit ==
    /\ dom_fields \in DomForms
    /\ crawl_form = None
    /\ form_test_data = <<>>
    /\ form_pc = "extract"
    /\ CrawlIdle
    /\ LinksIdle
    /\ GeneratorIdle
    /\ NamingIdle

\* extract_forms on the page of the form
ExtractFormsCall ==
    /\ form_pc = "extract"
    /\ crawl_form' = ExtractedForm(dom_fields)
    /\ form_pc' = "generate"
    /\ UNCHANGED <<crawl_vars, links_vars, generator_vars, naming_vars, dom_fields,
                   form_test_data>>

\* create_page_object and create_test_case(page_object, test_name, "form")
\* on the page of the form
CreateFormTestCase ==
    /\ form_pc = "generate"
    /\ form_test_data' = TestSampleData(crawl_form.fields, <<>>)
    /\ form_pc' = "returned"
    /\ UNCHANGED <<crawl_vars, links_vars, generator_vars, naming_vars, dom_fields,
                   crawl_form>>

FormNext ==
    \/ ExtractFormsCall
    \/ CreateFormTestCase

FormSpec == FormInit /\ [][FormNext]_vars

\* -------------------------------------------------------------- properties
FrontierUrls == {to_crawl[i].url : i \in DOMAIN to_crawl}

LoopHeadOrExit == pc \in {"while", "finally", "returned"}

\* C1: at every point of the crawl the number of entries of crawl_data.pages
\* is at most config.crawler.max_pages.
C1_PagesWithinBudget ==
    Cardinality(DOMAIN pages) <= config.max_pages

\* C2: an entry of crawl_data.pages, once recorded, is never replaced or
\* changed by a later merge (first writer wins).
C2_FirstWriterWins ==
    [][\A u \in DOMAIN pages : u \in DOMAIN pages' /\ pages'[u] = pages[u]]_vars

\* C3: the root is recorded with depth 0 and no parent; every other recorded
\* page has a recorded parent and a depth one more than its parent's.
C3_DepthIsParentDepthPlusOne ==
    \A u \in DOMAIN pages :
        IF u = base_url
        THEN pages[u].depth = 0 /\ pages[u].parent_url = None
        ELSE /\ pages[u].parent_url \in DOMAIN pages
             /\ pages[u].depth = pages[pages[u].parent_url].depth + 1

\* C4: after each batch is merged and at exit, no URL is both in visited_urls
\* and the URL of an entry of the frontier.
C4_VisitedNotInFrontier ==
    LoopHeadOrExit => FrontierUrls \cap visited_urls = {}

\* C5: the frontier never holds two entries with the same URL.
C5_FrontierHasNoDuplicates ==
    \A i, j \in DOMAIN to_crawl :
        to_crawl[i].url = to_crawl[j].url => i = j

\* C6: an entry appended to the frontier never has a URL that was in
\* visited_urls or failed_urls when its source page was merged (nor the URL of
\* the source page itself), and crawl_data.pages holds one entry per URL.
C6_VisitedOrFailedNeverEnqueued ==
    /\ [][\A i \in (Len(to_crawl) + 1)..Len(to_crawl') :
            /\ to_crawl'[i].url \notin visited_urls
            /\ to_crawl'[i].url \notin DOMAIN failed_urls
            /\ to_crawl'[i].url # to_crawl'[i].parent_url]_vars
    /\ [](\A u, v \in DOMAIN pages : pages[u].url = pages[v].url => u = v)

\* The root document links to the root itself and to another page: merged
\* without error below the depth limit, it enqueued the other page only.
C6_Witness ==
    /\ pc = "while"
    /\ DOMAIN pages = {base_url}
    /\ ~pages[base_url].has_errors
    /\ base_url \in DOMAIN site
    /\ \E i \in DOMAIN site[base_url] : site[base_url][i] = base_url
    /\ to_crawl # <<>>
    /\ base_url \notin FrontierUrls

\* C7: the crawl loop terminates, and when it exits the frontier is empty or
\* the page budget is reached.
C7_TerminatesAtEmptyFrontierOrBudget ==
    /\ <>(pc \in {"returned", "raised"})
    /\ [](pc = "finally" =>
            to_crawl = <<>> \/ Cardinality(DOMAIN pages) >= config.max_pages)

\* The loop was left on the page budget with entries still queued.
C7_Witness ==
    /\ pc = "returned"
    /\ to_crawl # <<>>
    /\ Cardinality(DOMAIN pages) >= config.max_pages

\* The links extract_links finds in the root document, when it is known
RootLinks == extract_links(site[base_url], base_url)

\* The root document has exactly one link, a same-origin link to an
\* admissible page other than the root; depth = 1 and max_pages = 10.
OneLinkScenario ==
    /\ config.depth = 1
    /\ config.max_pages = 10
    /\ base_url \in DOMAIN site
    /\ Len(site[base_url]) = 1
    /\ Len(RootLinks) = 1
    /\ RootLinks[1] # base_url
    /\ is_url_allowed(RootLinks[1], config.exclude_patterns)

\* C8: in the one-link scenario with every load succeeding, the loop exits
\* with exactly the root (depth 0, no parent) and the child (depth 1, parent
\* the root) recorded and an empty frontier, whatever the concurrency.
C8_OneLinkGivesTwoPages ==
    (/\ OneLinkScenario
     /\ pc \in {"finally", "returned"}
     /\ failed_urls = EmptyMap)
    => /\ DOMAIN pages = {base_url, RootLinks[1]}
       /\ pages[base_url].depth = 0
       /\ pages[base_url].parent_url = None
       /\ pages[RootLinks[1]].depth = 1
       /\ pages[RootLinks[1]].parent_url = base_url
       /\ to_crawl = <<>>

C8_Witness ==
    /\ OneLinkScenario
    /\ config.concurrency = 2
    /\ pc = "returned"
    /\ failed_urls = EmptyMap
    /\ Cardinality(DOMAIN pages) = 2

\* C9: an exception raised in the try block of crawl_page ends in a returned
\* page with has_errors and an error message; it never makes crawl_page or
\* crawl_website raise, and every page of a merged batch is recorded.
C9_PageFailureIsRecorded ==
    /\ \A i \in DOMAIN tasks :
          tasks[i].raised_in = "try" =>
             /\ tasks[i].pc \in {"finally", "done"}
             /\ tasks[i].page.has_errors
             /\ tasks[i].page.error_message # NoMessage
    /\ pc \in {"finally_exc", "raised"} =>
          \E i \in DOMAIN tasks : tasks[i].raised_in \in {"new_context", "new_page"}
    /\ LoopHeadOrExit =>
          \A i \in DOMAIN tasks : tasks[i].page.url \in DOMAIN pages

\* A batch of two whose first page failed in the try block and whose second
\* page loaded: both are recorded and crawl_website has returned.
C9_Witness ==
    /\ pc = "returned"
    /\ Len(tasks) = 2
    /\ tasks[1].raised_in = "try"
    /\ tasks[2].raised_in = "none"
    /\ tasks[1].page.url # tasks[2].page.url
    /\ pages[tasks[1].page.url].has_errors
    /\ ~pages[tasks[2].page.url].has_errors

\* C10: a context opened by crawl_page is closed by the time crawl_page
\* returns or raises.
C10_ContextClosedWhenPageFinishes ==
    \A i \in DOMAIN tasks :
        tasks[i].pc \in {"done", "raised"} => tasks[i].context # "open"

AllTasksDone == \A i \in 1..Len(tasks) : tasks[i].pc = "done"

dataset == <<pages, visited_urls, failed_urls, crawl_depth>>

\* C12: a step that changes the dataset (pages, visited_urls, failed_urls,
\* crawl_depth) or the frontier is taken only when no page task of the current
\* batch is still running; the merge (pc = "for") runs only with every task
\* completed, and the tasks change (a next batch starts) only once the merge
\* of the previous batch has processed every page.
C12_NoMutationWhileTasksRun ==
    [][/\ (dataset' # dataset \/ to_crawl' # to_crawl) => AllTasksDone
       /\ pc' = "for" => AllTasksDone /\ AllTasksDone'
       /\ (pc # "gather" /\ pc' = "gather") => AllTasksDone /\ merged = Len(tasks)
      ]_vars

\* the merge of a batch of two has processed its first page
C12_Witness ==
    /\ pc = "for"
    /\ Len(tasks) = 2
    /\ merged = 1
    /\ tasks[1].page.url \in DOMAIN pages
    /\ AllTasksDone

\* the page records with has_errors = TRUE the merge can be given, whatever
\* links they hold and whatever their depth
ErroredPages ==
    {[CrawlPage(u, d, None) EXCEPT !.has_errors = TRUE, !.error_message = e,
                                   !.links = l] :
        u \in {Url(1)}, d \in 0..MaxDepth, e \in ErrorMessages \cup {NoMessage},
        l \in {<<>>, <<Url(2)>>, <<Url(0), Url(2)>>}}

\* C13: the merge of a page with has_errors = TRUE adds its url to
\* visited_urls and to failed_urls with a non-empty message and appends nothing
\* to the frontier; no errored record, whatever its links and depth, yields a
\* frontier entry.
C13_ErroredPageIsFailedAndNotExpanded ==
    /\ [](\A page \in ErroredPages :
            /\ NewEntries(page, visited_urls, failed_urls, config) = <<>>
            /\ FailureMessage(page) # "")
    /\ [][(pc = "for" /\ merged' = merged + 1 /\ tasks[merged + 1].page.has_errors) =>
            LET url == tasks[merged + 1].page.url
            IN  /\ url \in visited_urls'
                /\ url \in DOMAIN failed_urls'
                /\ failed_urls'[url] \notin {"", NoMessage}
                /\ to_crawl' = to_crawl
         ]_vars

\* a page whose exception had an empty message was merged
C13_Witness ==
    \E u \in DOMAIN failed_urls :
        /\ u \in visited_urls
        /\ u \in DOMAIN pages
        /\ pages[u].has_errors
        /\ pages[u].error_message = ""
        /\ failed_urls[u] = "Unknown error"

\* C14: every frontier entry and every page has 0 <= depth <= config.depth
\* and crawl_depth never exceeds config.depth (so the links of a page at depth
\* config.depth are not enqueued: their entries would have depth + 1).
C14_DepthWithinMaxDepth ==
    /\ \A i \in DOMAIN to_crawl :
          to_crawl[i].depth >= 0 /\ to_crawl[i].depth <= config.depth
    /\ \A u \in DOMAIN pages :
          pages[u].depth >= 0 /\ pages[u].depth <= config.depth
    /\ \A i \in 1..Len(tasks) :
          tasks[i].page.depth >= 0 /\ tasks[i].page.depth <= config.depth
    /\ crawl_depth >= 0 /\ crawl_depth <= config.depth

\* /p1 links to /p3 and was recorded at depth config.depth = 1: the crawl
\* ended without /p3
C14_Witness ==
    /\ site = TwoParentsSite
    /\ config.depth = 1
    /\ pc = "returned"
    /\ Url(1) \in DOMAIN pages
    /\ pages[Url(1)].depth = config.depth
    /\ ~pages[Url(1)].has_errors
    /\ crawl_depth = config.depth
    /\ Url(3) \notin visited_urls

\* the URLs recorded as keys of pages or members of visited_urls, and the URLs
\* loaded or about to be (the frontier and the tasks of the batch)
RecordedUrls == DOMAIN pages \cup visited_urls
LoadedUrls == FrontierUrls \cup {tasks[i].page.url : i \in 1..Len(tasks)}

\* C15: every key of pages, member of visited_urls and frontier URL is
\* canonical (no fragment), the root URL included, and no two URLs that differ
\* only by their fragment are both recorded or both loaded.
C15_RecordedUrlsAreCanonical ==
    /\ \A u \in RecordedUrls \cup LoadedUrls : clean_url(u) = u
    /\ \A u, v \in RecordedUrls : clean_url(u) = clean_url(v) => u = v

\* C16: the canonicalization of extract_links is idempotent on every URL it
\* is applied to (the URLs that start with base_url; base_url has the host of
\* the page), so every link returned is its own canonical form; and it gives
\* the same URL for any two URLs that differ only by their fragment.
C16_CanonicalizationIsIdempotent ==
    href_pc = "returned" =>
        /\ \A i \in DOMAIN href_links : CleanUrl(href_links[i]) = href_links[i]
        /\ \A i \in DOMAIN href_list :
              /\ StartsWith(href_list[i], href_base) =>
                    CleanUrl(CleanUrl(href_list[i])) = CleanUrl(href_list[i])
              /\ \A v \in FragmentVariants(href_list[i]) :
                    CleanUrl(v) = CleanUrl(href_list[i])

\* two different URLs that differ only by their fragment were both retained
\* and rewritten to one and the same link
C16_Witness ==
    /\ href_pc = "returned"
    /\ Len(href_list) = 2
    /\ href_list[1] # href_list[2]
    /\ Len(href_links) = 2
    /\ href_links[1] = href_links[2]
    /\ href_links[1] # href_list[1]

\* u has the scheme and the host of base
SameOrigin(u, base) ==
    /\ urlparse(u).scheme = urlparse(base).scheme
    /\ urlparse(u).netloc = urlparse(base).netloc

\* C17: every link extract_links returns has the scheme and the host of the
\* page (a URL of another host that merely begins with the page's
\* scheme://host is not returned), and every same-origin URL of the page is
\* returned, canonicalized.
C17_LinksAreSameOrigin ==
    href_pc = "returned" =>
        /\ \A i \in DOMAIN href_links : SameOrigin(href_links[i], href_base)
        /\ \A i \in DOMAIN href_list :
              SameOrigin(href_list[i], href_base) =>
                  \E j \in DOMAIN href_links : href_links[j] = CleanUrl(href_list[i])

\* the page of crawl_data a generated file was made for
PagesOfFile(file) == {i \in DOMAIN gen_pages : gen_pages[i].url = file.url}

\* C18: every page-object file and every test file generate_tests generates,
\* writes or returns belongs to a page with has_errors = FALSE and
\* status_code < 400.
C18_FilesOnlyForEligiblePages ==
    \A files \in {page_object_files, test_files, all_files} :
        \A i \in DOMAIN files :
            files[i].file_type \in {"page_object", "test"} =>
                /\ PagesOfFile(files[i]) # {}
                /\ \A j \in PagesOfFile(files[i]) :
                      ~gen_pages[j].has_errors /\ gen_pages[j].status_code < 400

\* generate_tests returned for a page with status 400 followed by a page with
\* status 399: both files of the second, none of the first
C18_Witness ==
    /\ gen_pc = "returned"
    /\ Len(gen_pages) = 2
    /\ ~gen_pages[1].has_errors /\ gen_pages[1].status_code = 400
    /\ ~gen_pages[2].has_errors /\ gen_pages[2].status_code = 399
    /\ \E i \in DOMAIN all_files :
          all_files[i].file_type = "page_object" /\ all_files[i].url = gen_pages[2].url
    /\ \E i \in DOMAIN all_files :
          all_files[i].file_type = "test" /\ all_files[i].url = gen_pages[2].url
    /\ \A i \in DOMAIN all_files : all_files[i].url # gen_pages[1].url

MethodNames(page_object) ==
    {page_object.methods[i] : i \in DOMAIN page_object.methods}

\* C19: a page object has the method fill_{form_name} exactly for the forms
\* whose locator list holds an input-typed locator and a submit locator, and
\* no other fill method; the page object of a page whose only form is one
\* password field without submit button has no fill method.
C19_FillMethodIffInputAndSubmit ==
    /\ \A i \in DOMAIN page_objects :
          LET po == page_objects[i]
          IN  /\ \A f \in DOMAIN po.forms :
                    <<"fill", po.forms[f][1]>> \in MethodNames(po)
                    <=> /\ \E l \in DOMAIN po.forms[f][2] :
                              Take(po.forms[f][2][l].element_type, 1) = <<"input">>
                        /\ \E l \in DOMAIN po.forms[f][2] :
                              po.forms[f][2][l].element_type = <<"submit">>
              /\ \A m \in MethodNames(po) :
                    m[1] = "fill" => \E f \in DOMAIN po.forms : po.forms[f][1] = m[2]
    /\ (/\ gen_pc \notin {"page_objects", "raised"}
        /\ Len(gen_pages) = 1
        /\ Eligible(gen_pages[1])
        /\ gen_pages[1].forms = <<CrawlForm(<<PasswordField>>, <<>>)>>)
       => /\ Len(page_objects) = 1
          /\ Len(page_objects[1].forms) = 1
          /\ \A m \in MethodNames(page_objects[1]) : m[1] # "fill"

\* the page object of a page with a password-only form followed by a form
\* with an e-mail field and a submit button: fill_form_2 and no fill_form_1
C19_Witness ==
    /\ gen_pc = "returned"
    /\ Len(gen_pages) = 1
    /\ gen_pages[1].forms = <<CrawlForm(<<PasswordField>>, <<>>),
                              CrawlForm(<<EmailField>>, <<SubmitButton(TRUE)>>)>>
    /\ Len(page_objects) = 1
    /\ <<"fill", <<"form", 2>>>> \in MethodNames(page_objects[1])
    /\ <<"fill", <<"form", 1>>>> \notin MethodNames(page_objects[1])

Min(a, b) == IF a <= b THEN a ELSE b

\* the names of the visible and clickable elements of a page, and the
\* position of the first element with a name
NamedElements(page) ==
    {page.elements[i].name :
        i \in {j \in DOMAIN page.elements :
                  page.elements[j].is_visible /\ page.elements[j].is_clickable}}

FirstNamed(page, name) ==
    CHOOSE i \in DOMAIN page.elements :
        /\ page.elements[i].name = name
        /\ page.elements[i].is_visible /\ page.elements[i].is_clickable
        /\ \A j \in 1..(i - 1) :
              ~(/\ page.elements[j].name = name
                /\ page.elements[j].is_visible /\ page.elements[j].is_clickable)

ElementsCases(file) ==
    SelectSeq(file.test_cases, LAMBDA c : c.case_type = "elements")

\* C20: the test of a page object has an elements test case iff the page
\* object has at least one named element; with n named elements (the distinct
\* names of the visible and clickable elements of the page, in the order of
\* their first element) the case holds exactly min(5, n) assertions, for the
\* first min(5, n) names in that order.
C20_ElementsTestCaseHasFirstFive ==
    gen_pc \in {"write", "returned"} =>
        /\ Len(test_files) = Len(page_objects)
        /\ \A i \in DOMAIN test_files :
              LET po == page_objects[i]
                  page == EligiblePages[i]
                  n == Cardinality(NamedElements(page))
                  cases == ElementsCases(test_files[i])
              IN  /\ Len(po.elements) = n
                  /\ \A a, b \in DOMAIN po.elements :
                        a < b => FirstNamed(page, po.elements[a][1])
                                 < FirstNamed(page, po.elements[b][1])
                  /\ (cases # <<>>) <=> (n >= 1)
                  /\ Len(cases) <= 1
                  /\ \A c \in DOMAIN cases :
                        /\ Len(cases[c].assertions) = Min(5, n)
                        /\ \A j \in 1..Min(5, n) :
                              cases[c].assertions[j] = po.elements[j][1]

\* a page with eight elements of eight names: five assertions, for the first
\* five of them
C20_Witness ==
    /\ gen_pc = "returned"
    /\ Len(gen_pages) = 1
    /\ Cardinality(NamedElements(gen_pages[1])) = 8
    /\ Len(test_files) = 1
    /\ Len(ElementsCases(test_files[1])) = 1
    /\ ElementsCases(test_files[1])[1].assertions
          = [j \in 1..5 |-> ElementName(j)]

\* the urls whose record in crawl_data.pages has has_errors = TRUE
ErroredUrls == {u \in DOMAIN pages : pages[u].has_errors}

\* C29: after every merge step and at the exit of the crawl, a url is a key of
\* failed_urls exactly when the record stored for it in pages has
\* has_errors = TRUE (also when the url was loaded more than once with
\* different outcomes), and stats["failed"] is the number of these records.
C29_FailedUrlsAreErroredRecords ==
    /\ DOMAIN failed_urls = ErroredUrls
    /\ pc \in {"finally", "returned"} => stats["failed"] = Cardinality(ErroredUrls)

\* the page tasks that hold an open browser context, and those still running
OpenSessions == {i \in DOMAIN tasks : tasks[i].context = "open"}
RunningTasks == {i \in DOMAIN tasks : tasks[i].pc \notin {"done", "raised"}}

\* C30: every batch is the first min(concurrency, len(to_crawl)) entries of
\* the frontier in their order, which leave the frontier; at any time at most
\* concurrency page tasks exist and at most concurrency contexts are open.
C30_BatchIsFifoPrefixWithinConcurrency ==
    /\ [](/\ Len(tasks) <= config.concurrency
          /\ Cardinality(RunningTasks) <= config.concurrency
          /\ Cardinality(OpenSessions) <= config.concurrency)
    /\ [][(pc = "while" /\ pc' = "gather") =>
            LET n == Min(config.concurrency, Len(to_crawl))
            IN  /\ Len(tasks') = n
                /\ \A i \in 1..n :
                      /\ tasks'[i].page.url = to_crawl[i].url
                      /\ tasks'[i].page.depth = to_crawl[i].depth
                      /\ tasks'[i].page.parent_url = to_crawl[i].parent_url
                /\ to_crawl' = SubSeq(to_crawl, n + 1, Len(to_crawl))
         ]_vars

\* with concurrency 1 and two entries in the frontier, the batch was the first
\* of them and its context is open while the second waits
C30_Witness ==
    /\ pc = "gather"
    /\ config.concurrency = 1
    /\ Len(tasks) = 1
    /\ tasks[1].context = "open"
    /\ Len(to_crawl) = 1
    /\ tasks[1].page.url = Url(1)
    /\ to_crawl[1].url = Url(2)

\* the generated page objects exist
PageObjectsCreated == gen_pc \in {"page_object_files", "test_files", "write", "returned"}

\* the positions in page.forms (document order, the i of the selector
\* form:nth-of-type(i) extract_forms gave the form) of the forms that have a
\* locator
FormPositions(page) ==
    {k \in DOMAIN page.forms : FormElements(page.forms[k]) # <<>>}

\* C21: every form a page object names is named form_i with i its 1-based
\* position among the forms of the page in document order, and holds the
\* locators of that form, also when an earlier form of the page has no
\* visible field and no submit button.
C21_FormNameIsDocumentPosition ==
    PageObjectsCreated =>
        \A i \in DOMAIN page_objects :
            LET po == page_objects[i]
                page == EligiblePages[i]
            IN  /\ {po.forms[f][1] : f \in DOMAIN po.forms}
                   = {<<"form", k>> : k \in FormPositions(page)}
                /\ \A f \in DOMAIN po.forms :
                      LET k == po.forms[f][1][2]
                      IN  k \in DOMAIN page.forms
                          => po.forms[f][2] = FormElements(page.forms[k])

\* the position of the last visible and clickable element of the page with
\* the name
LastNamed(page, name) ==
    CHOOSE i \in DOMAIN page.elements :
        /\ page.elements[i].name = name
        /\ page.elements[i].is_visible /\ page.elements[i].is_clickable
        /\ \A j \in (i + 1)..Len(page.elements) :
              ~(/\ page.elements[j].name = name
                /\ page.elements[j].is_visible /\ page.elements[j].is_clickable)

\* C23: the named locators of a page object are those of the elements that
\* are visible and clickable; a name several of them derive has exactly one
\* entry, bound to the locator of the last of them in document order.
C23_LastElementOfANameWins ==
    PageObjectsCreated =>
        \A i \in DOMAIN page_objects :
            LET po == page_objects[i]
                page == EligiblePages[i]
            IN  /\ {po.elements[k][1] : k \in DOMAIN po.elements} = NamedElements(page)
                /\ \A a, b \in DOMAIN po.elements :
                      po.elements[a][1] = po.elements[b][1] => a = b
                /\ \A k \in DOMAIN po.elements :
                      /\ po.elements[k][2].name = po.elements[k][1]
                      /\ po.elements[k][2] =
                            create_element_locator(
                                page.elements[LastNamed(page, po.elements[k][1])])

\* three links, the first and the third of one name, the second hidden: one
\* locator, that of the third
C23_Witness ==
    /\ gen_pc = "returned"
    /\ Len(gen_pages) = 1
    /\ gen_pages[1].elements = ElementList(3, 2, 2, 0)
    /\ Len(page_objects) = 1
    /\ Len(page_objects[1].elements) = 1
    /\ page_objects[1].elements[1][1] = ElementName(1)
    /\ page_objects[1].elements[1][2].selector = 3

\* C28: every method a test case of a generated test calls on its page object
\* (navigate, get_{element_name}, fill_{form_name}) is a method of the page
\* object of the same page; a form test case is generated only when the page
\* object has the fill method of its form.
C28_CalledMethodsAreDefined ==
    gen_pc \in {"write", "returned"} =>
        \A i \in DOMAIN test_files :
            /\ test_files[i].url = page_objects[i].url
            /\ \A c \in DOMAIN test_files[i].test_cases :
                  CalledMethods(test_files[i].test_cases[c])
                  \subseteq MethodNames(page_objects[i])

\* C22: two distinct eligible pages have page objects of distinct names and
\* distinct file names, also when the pages have the same title; every
\* eligible page has its own page-object file and its own test file, and
\* every file generate_tests returns is on disk as it was generated: none is
\* overwritten by another.
C22_DistinctPagesHaveDistinctFiles ==
    /\ PageObjectsCreated =>
          \A i, j \in DOMAIN page_objects :
              i # j => /\ page_objects[i].name # page_objects[j].name
                       /\ page_objects[i].file_name # page_objects[j].file_name
    /\ gen_pc \in {"write", "returned"} =>
          /\ Len(page_object_files) = Len(EligiblePages)
          /\ Len(test_files) = Len(EligiblePages)
          /\ \A files \in {page_object_files, test_files} :
                \A i, j \in DOMAIN files :
                    i # j => files[i].file_path # files[j].file_path
    /\ gen_pc = "returned" =>
          \A i \in DOMAIN all_files :
              /\ all_files[i].file_path \in DOMAIN written_files
              /\ written_files[all_files[i].file_path] = all_files[i]

\* the words of a name after sanitizing, title-cased and concatenated
TitleCasedWords(source) ==
    LET words == Split(SanitizeName(source), "_")
    IN  Join([i \in DOMAIN words |-> Title(words[i])])

\* source is what the page-object name and the test name are made of: the
\* name is the title-cased words of the sanitized source, with "Page"
\* appended unless they end with it; the test name is "Test" and the name
\* without its trailing "Page"
NamedAfter(source) ==
    /\ naming_name \in {TitleCasedWords(source), TitleCasedWords(source) \o PageSuffix}
    /\ EndsWith(naming_name, PageSuffix)
    /\ naming_name = TitleCasedWords(source) <=> EndsWith(TitleCasedWords(source), PageSuffix)
    /\ naming_pc = "returned" =>
          naming_test_name =
              <<"T", "e", "s", "t">> \o SubSeq(naming_name, 1, Len(naming_name) - 4)

\* the last non-empty segment of the path of url, <<>> if it has none
LastPathSegment(url) ==
    LET segments == SelectSeq(Split(urlparse(url).path, "/"), LAMBDA s : s # <<>>)
    IN  IF segments = <<>> THEN <<>> ELSE segments[Len(segments)]

\* the last piece between "/" of what follows the host in the text of url,
\* query included, <<>> if nothing but "/" follows the host
LastUrlPiece(url) ==
    LET pieces == Split(Strip(SubSeq(url.rest, Find(url.rest, {"/"}, 1), Len(url.rest)),
                              "/"), "/")
    IN  pieces[Len(pieces)]

PageNamed == naming_input.kind = "page" /\ naming_pc \in {"named", "returned"}

C26_GenerateTestsDoesNotRaise == gen_pc # "raised"

\* the fields of the form that are the last of their name
LastOfName(i) ==
    /\ dom_fields[i].name # <<>>
    /\ \A j \in (i + 1)..Len(dom_fields) : dom_fields[j].name # dom_fields[i].name

\* C25: extract_forms sets sample_data[name] for every field with a non-empty
\* name and for no other key, by the first rule that matches: type email, the
\* dummy e-mail address; type password, the dummy password; a name that
\* contains "name" (in any case), the dummy person name; a name that contains
\* "phone", the dummy phone number; else "test_" and the name.
C25_SampleDataByFirstMatchingRule ==
    form_pc \in {"generate", "returned"} =>
        /\ {crawl_form.sample_data[k][1] : k \in DOMAIN crawl_form.sample_data}
           = {dom_fields[i].name : i \in {j \in DOMAIN dom_fields : dom_fields[j].name # <<>>}}
        /\ \A i \in DOMAIN dom_fields :
              LastOfName(i) =>
                  LET name == dom_fields[i].name
                      type == dom_fields[i].type
                      value == DictGet(crawl_form.sample_data, name)
                      named == Contains(Lower(name), NameWord)
                      phoned == Contains(Lower(name), Phone)
                  IN  /\ type = Email => value = DummyEmail
                      /\ type = Password => value = DummyPassword
                      /\ (type \notin {Email, Password} /\ named) => value = DummyName
                      /\ (type \notin {Email, Password} /\ ~named /\ phoned)
                         => value = DummyPhone
                      /\ (type \notin {Email, Password} /\ ~named /\ ~phoned)
                         => value = <<"test_">> \o name

\* a field named user_email of type email got the dummy e-mail address
C25_Witness ==
    /\ form_pc = "returned"
    /\ Len(dom_fields) = 1
    /\ dom_fields[1].type = Email
    /\ dom_fields[1].name = <<"u", "s", "e", "r", "_">> \o Email
    /\ crawl_form.sample_data = <<<<dom_fields[1].name, DummyEmail>>>>

\* C27: for every input-typed field of the form that has a name, the sample
\* value of the generated form test is the value extract_forms assigned to
\* the field; a text field named phone has the dummy phone number in both.
C27_TestSampleIsExtractedSample ==
    form_pc = "returned" =>
        \A i \in DOMAIN crawl_form.fields :
            LET field == crawl_form.fields[i]
            IN  (field.is_visible /\ LastOfName(i)) =>
                    /\ \E k \in DOMAIN form_test_data :
                          form_test_data[k][1] = CreateElementName(field)
                    /\ DictGet(form_test_data, CreateElementName(field))
                       = DictGet(crawl_form.sample_data, field.name)

====
